---- MODULE Spec2Model ----
(***************************************************************************)
(* Model of the notebook hessian_rank.ipynb: a linear pipeline of cells    *)
(* that accumulates the input covariance, the loss Hessian and the outer   *)
(* gradient product over the batches of a data loader, takes the           *)
(* functional Hessian as their difference, computes numerical ranks and    *)
(* prints them next to the closed-form rank bounds.                        *)
(*                                                                         *)
(* Floating-point values are modelled as integers rounded to MantBits      *)
(* significant bits (round to nearest, ties to even), which is IEEE-754    *)
(* binary arithmetic with a short mantissa and no fractional part.  The    *)
(* numerical rank uses the machine epsilon of the same format.             *)
(***************************************************************************)
EXTENDS Integers, Sequences, FiniteSets, TLC

\* ------------------------------------------------------------------ bounds
MantBits == 8       \* significant bits of the modelled floating-point format
MaxTrain == 3       \* largest sample count n_train
MaxDim == 2         \* largest input dimension (runs take 1 or this one)
MaxClasses == 2     \* largest class count
MaxWidth == 2       \* largest hidden width fed to the bound predictor alone
MaxRank == 3        \* largest covariance rank fed to the bound predictor alone

\* ------------------------------------------- the notebook's reference run
RefNTrain == 50
RefDim == 25
RefWidths == <<5, 10>>
RefClasses == 10
RefBs == 10
RecRankF == 175
RecPredF == 175
RecRankOuter == 150
RecPredOuter == 150
RecRankL == 250
RecPredL == 250
RecordedOutput ==
    << <<RecRankF, RecPredF>>, <<RecRankOuter, RecPredOuter>>, <<RecRankL, RecPredL>> >>

\* ------------------------------------------------------------- arithmetic
Abs(x) == IF x < 0 THEN -x ELSE x

Range(f) == {f[k] : k \in DOMAIN f}

\* Python's sum() over a list of integers.
RECURSIVE SeqSum(_)
SeqSum(w) == IF w = <<>> THEN 0 ELSE w[1] + SeqSum(Tail(w))

\* The spacing of representable values around magnitude a.
RECURSIVE Quantum(_, _)
Quantum(a, u) == IF a < (2 ^ MantBits) * u THEN u ELSE Quantum(a, 2 * u)

\* The result of one floating-point operation whose exact value is x:
\* x rounded to MantBits significant bits, ties to the even mantissa.
Fl(x) ==
    LET a == Abs(x)
        u == Quantum(a, 1)
        m == a \div u
        lo == m * u
        rem == a - lo
        r == IF 2 * rem < u THEN lo
             ELSE IF 2 * rem > u THEN lo + u
             ELSE IF m % 2 = 0 THEN lo ELSE lo + u
    IN  IF x < 0 THEN -r ELSE r

Representable(x) == Fl(x) = x

\* ---------------------------------------------------------------- matrices
\* jnp.zeros(shape=(m, n))
Zeros(m, n) == [i \in 1..m |-> [j \in 1..n |-> 0]]

\* Faulty variant of MatAdd: only the upper triangle is updated.
MatAddUpper(A, B) ==
    [i \in DOMAIN A |-> [j \in DOMAIN A[i] |->
        IF i <= j THEN Fl(A[i][j] + B[i][j]) ELSE A[i][j]]]

\* Faulty variant of MatAdd: `acc = contribution` instead of `acc +=`.
MatAddOverwrite(A, B) == B

\* A + B of `acc += contribution`, entry by entry, each entry rounded.
MatAdd(A, B) ==
    [i \in DOMAIN A |-> [j \in DOMAIN A[i] |-> Fl(A[i][j] + B[i][j])]]

\* Faulty variant of MatSub: the operands swapped.
MatSubSwapped(A, B) ==
    [i \in DOMAIN A |-> [j \in DOMAIN A[i] |-> Fl(B[i][j] - A[i][j])]]

\* A - B, entry by entry, each entry rounded.
MatSub(A, B) ==
    [i \in DOMAIN A |-> [j \in DOMAIN A[i] |-> Fl(A[i][j] - B[i][j])]]

\* One dot product of batch_input.T @ batch_input: column a against column b
\* of X, summed over the rows of the batch.
RECURSIVE Dot(_, _, _, _)
Dot(X, a, b, n) ==
    IF n = 0 THEN 0 ELSE Fl(Dot(X, a, b, n - 1) + Fl(X[n][a] * X[n][b]))

\* batch_input.T @ batch_input for a batch X of Len(X) rows and d columns.
Gram(X, d) == [a \in 1..d |-> [b \in 1..d |-> Dot(X, a, b, Len(X))]]

\* a / b > c / d for naturals a, c and positive b, d, by comparing integer
\* parts and then the reciprocals of the fractional parts (no product is
\* formed, so no operand grows).
RECURSIVE FracGt(_, _, _, _)
FracGt(a, b, c, d) ==
    LET q1 == a \div b
        q2 == c \div d
        r1 == a % b
        r2 == c % d
    IN  IF q1 # q2 THEN q1 > q2
        ELSE IF r1 = 0 THEN FALSE
        ELSE IF r2 = 0 THEN TRUE
        ELSE FracGt(d, r2, b, r1)

\* The rows and the columns of M that hold a non-zero entry.
NonZeroRows(M) == {i \in DOMAIN M : \E j \in DOMAIN M[i] : M[i][j] # 0}
NonZeroCols(M) == {j \in 1..Len(M) : \E i \in DOMAIN M : M[i][j] # 0}

SetMin(S) == CHOOSE m \in S : \A x \in S : m <= x
SetMax(S) == CHOOSE m \in S : \A x \in S : m >= x

\* The machine epsilon of the format, finfo(dtype).eps = 2^(1 - MantBits),
\* as the fraction EpsNum / EpsDen.
EpsNum == 2
EpsDen == 2 ^ MantBits

\* matrix_rank of a non-zero n x n matrix M whose non-zero entries lie in
\* the rows R and the columns C, at most two of each.  Its singular values
\* are those of the block M[R, C]: s1 >= s2 >= 0 with
\* s1^2 + s2^2 = t, the sum of the squared entries, and s1 * s2 = |det|.
\* s1 exceeds the tolerance s1 * n * eps (n * eps < 1 here), and s2 does iff
\* s2 / s1 > n * eps, which, x / (1 + x^2) growing with x on [0, 1], is
\* |det| / t > (n * eps) / (1 + (n * eps)^2).
RankOfBlock(M, R, C, n) ==
    LET i1 == SetMin(R)
        i2 == SetMax(R)
        j1 == SetMin(C)
        j2 == SetMax(C)
        a == M[i1][j1]
        b == IF j2 # j1 THEN M[i1][j2] ELSE 0
        c == IF i2 # i1 THEN M[i2][j1] ELSE 0
        d == IF i2 # i1 /\ j2 # j1 THEN M[i2][j2] ELSE 0
        t == a * a + b * b + c * c + d * d
        det == a * d - b * c
        tn == n * EpsNum
    IN  IF det # 0 /\ FracGt(Abs(det), t, tn * EpsDen, EpsDen * EpsDen + tn * tn)
        THEN 2 ELSE 1

\* M has at most one non-zero entry in every row and in every column.
OneEntryPerLine(M) ==
    /\ \A i \in DOMAIN M : Cardinality({j \in DOMAIN M[i] : M[i][j] # 0}) <= 1
    /\ \A j \in 1..Len(M) : Cardinality({i \in DOMAIN M : M[i][j] # 0}) <= 1

\* matrix_rank of such a matrix M: its singular values are the magnitudes of
\* its entries, counted when above max * n * eps.
RankOfEntries(M, R, n) ==
    LET mag == [i \in R |-> Abs(M[i][CHOOSE j \in DOMAIN M[i] : M[i][j] # 0])]
        top == SetMax({mag[i] : i \in R})
    IN  Cardinality({i \in R : mag[i] * EpsDen > top * n * EpsNum})

\* jnp.linalg.matrix_rank(M) of a square matrix M with the default
\* tolerance: the number of singular values S with
\* S > S.max() * max(M.shape) * finfo(dtype).eps.  The singular values are
\* taken exactly, in closed form, for a matrix whose non-zero entries lie in
\* at most two rows and two columns (every matrix the modelled batches
\* accumulate) and for a matrix with one entry per row and column.  The
\* rank of any other matrix is left undefined: no run builds one, and a run
\* that did would stop the evaluation at this definition.
matrix_rank(M) ==
    LET n == Len(M)
        R == NonZeroRows(M)
        C == NonZeroCols(M)
    IN  IF R = {} THEN 0
        ELSE IF n * EpsNum >= EpsDen THEN 0
        ELSE IF Cardinality(R) <= 2 /\ Cardinality(C) <= 2
             THEN RankOfBlock(M, R, C, n)
        ELSE CASE OneEntryPerLine(M) -> RankOfEntries(M, R, n)

\* --------------------------------------------------------- bound predictor
\* jnp.min(jnp.array([...])) over a non-empty list of integers.
jnp_min(S) == CHOOSE m \in S : \A x \in S : m <= x

\* Faulty variant of EffectiveClasses: the class count is never decremented.
EffectiveClassesNoDecrement(name, k) == k

\* if loss_name == 'cross': classes = classes - 1
EffectiveClasses(name, k) == IF name = "cross" THEN k - 1 ELSE k

\* s = jnp.min(jnp.array([rank_cov, classes]))
s_of(r, k) == jnp_min({r, k})

\* q = jnp.min(jnp.array([rank_cov, classes] + widths))
q_of(r, k, w) == jnp_min({r, k} \cup Range(w))

\* Faulty variant of PredF: the layers counted as len(widths).
PredFHiddenLayersOnly(qq, ss, w) == 2 * qq * SeqSum(w) + 2 * qq * ss - Len(w) * qq ^ 2

\* pred_F = 2 * q * sum(widths) + 2 * q * s - (len(widths)+1) * q**2
PredF(qq, ss, w) == 2 * qq * SeqSum(w) + 2 * qq * ss - (Len(w) + 1) * qq ^ 2

\* Faulty variant of PredOuter: q is not subtracted.
PredOuterNoQ(r, k, qq) == (r + k) * qq

\* pred_outer = (rank_cov + classes - q) * q
PredOuter(r, k, qq) == (r + k - qq) * qq

\* pred_L = pred_F + pred_outer + q * (q - 2 * s)
PredL(pf, po, qq, ss) == pf + po + qq * (qq - 2 * ss)

\* ------------------------------------------------------- hyperparameters
\* all_widths = [dim] + widths + [classes]
AllWidths(d, w, k) == <<d>> \o w \o <<k>>

\* p = sum([all_widths[i] * all_widths[i + 1] for i in range(len(all_widths)-1)])
RECURSIVE ParamCount(_)
ParamCount(aw) ==
    IF Len(aw) < 2 THEN 0 ELSE aw[1] * aw[2] + ParamCount(Tail(aw))

\* ----------------------------------------------------------------- dtypes
\* The floating-point type new jax arrays get: float64 only in 64-bit mode.
JaxFloat(enabled) == IF enabled THEN "f64" ELSE "f32"

\* Type promotion of two floating-point arrays inside jax.
Promote(enabled, a, b) ==
    IF ~enabled THEN "f32"
    ELSE IF a = "f64" \/ b = "f64" THEN "f64" ELSE "f32"

\* The less precise of two types (what a value has been through).
Weakest(a, b) ==
    IF a = "none" THEN b
    ELSE IF b = "none" THEN a
    ELSE IF a = "f32" \/ b = "f32" THEN "f32" ELSE "f64"

\* The element types get_dataset may give data.x_train and data.y_train:
\* the notebook passes no dtype to it and casts nothing it returns.
DataDtypes == {"f32", "f64"}

\* ------------------------------------------------------------ the batches
Big == 2 ^ MantBits

\* The p x p symmetric matrix with v at (i, j) and (j, i), zero elsewhere.
SymUnit(n, i, j, v) ==
    [a \in 1..n |-> [b \in 1..n |->
        IF (a = i /\ b = j) \/ (a = j /\ b = i) THEN v ELSE 0]]

\* The batches a loader can deliver, each named by where its data lies
\* (pos) and how large it is (mag).
BatchIds ==
    {[pos |-> "diag", mag |-> m] : m \in {"unit", "big", "negbig"}}
        \cup {[pos |-> "off", mag |-> "unit"]}

\* batch_input of batch id: a b x d block whose rows all lie along one axis.
BatchInput(id, d, b) ==
    LET xk == IF id.pos = "diag" THEN 1 ELSE d
        xv == IF id.mag = "unit" THEN 1 ELSE IF id.mag = "big" THEN 2 ELSE 0
    IN  [r \in 1..b |-> [c \in 1..d |-> IF c = xk THEN xv ELSE 0]]

\* loss_hessian(loss_params, params, batch_input, batch_label) on batch id:
\* a symmetric n x n matrix.
loss_hessian(id, n) ==
    LET j == IF id.pos = "diag" THEN 1 ELSE n
        v == IF id.mag = "unit" THEN 1 ELSE IF id.mag = "big" THEN Big ELSE -Big
    IN  SymUnit(n, 1, j, v)

\* outer_prod(loss, apply_fn, params, batch_input, batch_label, cross=cross)
\* on batch id: a symmetric n x n matrix.
outer_prod(id, n) ==
    LET j == IF id.pos = "diag" THEN 1 ELSE n
        v == IF id.mag = "unit" THEN 2 * Big ELSE 0
    IN  SymUnit(n, 1, j, v)

\* ------------------------------------------------------------------ state
VARIABLES
    pc,          \* the cell (or statement) to run next; "done" or "aborted"
    loss_name, n_train, dim, widths, classes, bs,   \* the configuration
    dataset_ok,  \* whether the dataset provider can serve the request
    x64,         \* jax_enable_x64
    all_widths, p,
    dtype,       \* element types: params, acc (accumulators), data, batch, contrib
    loss_fn,     \* the loss family whose functions are defined, or "undef"
    cross,       \* "undef", "True" or "False"
    loaded,      \* the ids of the batches the loop has fetched so far, in order
    cov, H_L, H_outer, H_F,
    reads,       \* how often each accumulator has been read as an operand
    rank_cov, rank_L, rank_outer, rank_F,
    s, q, pred_F, pred_outer, pred_L,
    printed      \* the lines printed so far: <<measured, predicted>>

config == <<loss_name, n_train, dim, widths, bs, dataset_ok>>
accs == <<cov, H_L, H_outer>>
ranks == <<rank_cov, rank_L, rank_outer, rank_F>>
preds == <<s, q, pred_F, pred_outer, pred_L>>
vars == <<pc, config, classes, x64, all_widths, p, dtype, loss_fn, cross, loaded,
          accs, H_F, reads, ranks, preds, printed>>

Undef == <<>>          \* a name not yet bound to a matrix
NoInt == -1            \* a name not yet bound to an integer

LossNames == {"mse", "cross", "cosh", "other"}
HiddenLists == {<<>>, <<1>>}

\* The number of batches DataLoader(..., batch_size=bs) delivers: it keeps
\* the last, shorter batch (drop_last is left False).
NumBatches == (n_train + bs - 1) \div bs

\* The number of rows of batch number k: bs, but what is left for the last.
BatchRows(k) == IF k < NumBatches THEN bs ELSE n_train - (NumBatches - 1) * bs

Init ==
    /\ pc = "precision"
    /\ loss_name \in LossNames
    /\ n_train \in 1..MaxTrain
    /\ bs \in 1..MaxTrain
    /\ dim \in {1, MaxDim}
    /\ widths \in HiddenLists
    /\ classes \in 1..MaxClasses
    /\ dataset_ok \in BOOLEAN
    /\ x64 = FALSE
    /\ all_widths = Undef
    /\ p = NoInt
    /\ dtype = [params |-> "none", acc |-> "none", data |-> "none",
                batch |-> "none", contrib |-> "none"]
    /\ loss_fn = "undef"
    /\ cross = "undef"
    /\ loaded = <<>>
    /\ cov = Undef /\ H_L = Undef /\ H_outer = Undef /\ H_F = Undef
    /\ reads = [cov |-> 0, H_L |-> 0, H_outer |-> 0]
    /\ rank_cov = NoInt /\ rank_L = NoInt /\ rank_outer = NoInt /\ rank_F = NoInt
    /\ s = NoInt /\ q = NoInt /\ pred_F = NoInt /\ pred_outer = NoInt /\ pred_L = NoInt
    /\ printed = <<>>

\* ------------------------------------------------------------------ cells
\* config.update("jax_enable_x64", True)
EnableX64 ==
    /\ pc = "precision"
    /\ x64' = TRUE
    /\ pc' = "hyper"
    /\ UNCHANGED <<config, classes, all_widths, p, dtype, loss_fn, cross, loaded,
                   accs, H_F, reads, ranks, preds, printed>>

\* The hyperparameter cell: all_widths and the parameter count p.
Hyperparameters ==
    /\ pc = "hyper"
    /\ all_widths' = AllWidths(dim, widths, classes)
    /\ p' = ParamCount(all_widths')
    /\ pc' = "data"
    /\ UNCHANGED <<config, classes, x64, dtype, loss_fn, cross, loaded,
                   accs, H_F, reads, ranks, preds, printed>>

\* get_dataset(...) and the DataLoader: an unhandled failure of the dataset
\* provider ends the run.
LoadData ==
    /\ pc = "data"
    /\ IF dataset_ok
       THEN /\ pc' = "params"
            /\ \E dt \in DataDtypes : dtype' = [dtype EXCEPT !.data = dt]
       ELSE /\ pc' = "aborted"
            /\ UNCHANGED dtype
    /\ UNCHANGED <<config, classes, x64, all_widths, p, loss_fn, cross,
                   loaded, accs, H_F, reads, ranks, preds, printed>>

\* params = [jnp.double(param) for param in params]
InitParams ==
    /\ pc = "params"
    /\ dtype' = [dtype EXCEPT !.params = JaxFloat(x64)]
    /\ pc' = "loss"
    /\ UNCHANGED <<config, classes, x64, all_widths, p, loss_fn, cross, loaded,
                   accs, H_F, reads, ranks, preds, printed>>

\* The loss-family cell: three independent `if loss_name == ...` blocks, each
\* binding cross, loss and loss_params; no block runs for another name.
SelectLoss ==
    /\ pc = "loss"
    /\ loss_fn' = IF loss_name \in {"mse", "cross", "cosh"} THEN loss_name ELSE "undef"
    /\ cross' = IF loss_name = "cross" THEN "True"
                ELSE IF loss_name \in {"mse", "cosh"} THEN "False" ELSE "undef"
    /\ pc' = "zeros"
    /\ UNCHANGED <<config, classes, x64, all_widths, p, dtype, loaded,
                   accs, H_F, reads, ranks, preds, printed>>

\* H_L, H_outer = jnp.zeros(shape=(p, p)), jnp.zeros(shape=(p, p))
\* cov = jnp.zeros(shape=(dim, dim))
CreateAccumulators ==
    /\ pc = "zeros"
    /\ H_L' = Zeros(p, p)
    /\ H_outer' = Zeros(p, p)
    /\ cov' = Zeros(dim, dim)
    /\ dtype' = [dtype EXCEPT !.acc = JaxFloat(x64)]
    /\ pc' = "loop"
    /\ UNCHANGED <<config, classes, x64, all_widths, p, loss_fn, cross, loaded,
                   H_F, reads, ranks, preds, printed>>

\* Faulty variant of LoopBody: the NameError is swallowed and the loop goes on.
LoopBodySwallow ==
    /\ pc = "loop"
    /\ Len(loaded) < NumBatches
    /\ \E b \in BatchIds :
        /\ loaded' = Append(loaded, b)
        /\ cov' = MatAdd(cov, Gram(BatchInput(b, dim, BatchRows(Len(loaded) + 1)),
                               dim))
        /\ IF loss_fn = "undef"
           THEN UNCHANGED <<H_L, H_outer>>
           ELSE /\ H_L' = MatAdd(H_L, loss_hessian(b, p))
                /\ H_outer' = MatAdd(H_outer, outer_prod(b, p))
    /\ UNCHANGED <<pc, dtype, config, classes, x64, all_widths, p, loss_fn, cross,
                   H_F, reads, ranks, preds, printed>>

\* One iteration of `for batch_input, batch_label in train_loader`.  The
\* covariance is added first; loss_hessian(loss_params, ...) then raises a
\* NameError when no loss family was selected, which ends the run.
LoopBody ==
    /\ pc = "loop"
    /\ Len(loaded) < NumBatches
    /\ \E b \in BatchIds :
        /\ loaded' = Append(loaded, b)
        /\ cov' = MatAdd(cov, Gram(BatchInput(b, dim, BatchRows(Len(loaded) + 1)),
                               dim))
        /\ IF loss_fn = "undef"
           THEN /\ pc' = "aborted"
                /\ dtype' = [dtype EXCEPT
                      !.batch = dtype.data,
                      !.contrib = Weakest(dtype.contrib, dtype.data),
                      !.acc = Promote(x64, dtype.acc, dtype.data)]
                /\ UNCHANGED <<H_L, H_outer>>
           ELSE /\ pc' = "loop"
                /\ H_L' = MatAdd(H_L, loss_hessian(b, p))
                /\ H_outer' = MatAdd(H_outer, outer_prod(b, p))
                /\ dtype' = [dtype EXCEPT
                      !.batch = dtype.data,
                      !.contrib = Weakest(dtype.contrib,
                          Weakest(dtype.data, Promote(x64, dtype.params, dtype.data))),
                      !.acc = Promote(x64, dtype.acc, dtype.data)]
    /\ UNCHANGED <<config, classes, x64, all_widths, p, loss_fn, cross,
                   H_F, reads, ranks, preds, printed>>

\* Faulty variant of Difference: `H_L -= H_outer; H_F = H_L`.
DifferenceInPlace ==
    /\ pc = "loop"
    /\ Len(loaded) = NumBatches
    /\ H_L' = MatSub(H_L, H_outer)
    /\ H_F' = H_L'
    /\ reads' = [reads EXCEPT !.H_L = @ + 1, !.H_outer = @ + 1]
    /\ pc' = "rank"
    /\ UNCHANGED <<config, classes, x64, all_widths, p, dtype, loss_fn, cross,
                   loaded, cov, H_outer, ranks, preds, printed>>

\* H_F = H_L - H_outer, after the loader is exhausted.
Difference ==
    /\ pc = "loop"
    /\ Len(loaded) = NumBatches
    /\ H_F' = MatSub(H_L, H_outer)
    /\ reads' = [reads EXCEPT !.H_L = @ + 1, !.H_outer = @ + 1]
    /\ pc' = "rank"
    /\ UNCHANGED <<config, classes, x64, all_widths, p, dtype, loss_fn, cross,
                   loaded, accs, ranks, preds, printed>>

\* The rank cell: four calls of jnp.linalg.matrix_rank.
RankCell ==
    /\ pc = "rank"
    /\ rank_cov' = matrix_rank(cov)
    /\ rank_L' = matrix_rank(H_L)
    /\ rank_outer' = matrix_rank(H_outer)
    /\ rank_F' = matrix_rank(H_F)
    /\ reads' = [reads EXCEPT !.cov = @ + 1, !.H_L = @ + 1, !.H_outer = @ + 1]
    /\ pc' = "predict"
    /\ UNCHANGED <<config, classes, x64, all_widths, p, dtype, loss_fn, cross,
                   loaded, accs, H_F, preds, printed>>

\* The bound predictor cell up to its first print.
BoundPredictor ==
    /\ pc = "predict"
    /\ classes' = EffectiveClasses(loss_name, classes)
    /\ s' = s_of(rank_cov, classes')
    /\ q' = q_of(rank_cov, classes', widths)
    /\ pred_F' = PredF(q', s', widths)
    /\ pred_outer' = PredOuter(rank_cov, classes', q')
    /\ pred_L' = PredL(pred_F', pred_outer', q', s')
    /\ pc' = "print_F"
    /\ UNCHANGED <<config, x64, all_widths, p, dtype, loss_fn, cross, loaded,
                   accs, H_F, reads, ranks, printed>>

\* print('Rank of Functional Hessian is ' + ...)
PrintF ==
    /\ pc = "print_F"
    /\ printed' = Append(printed, <<rank_F, pred_F>>)
    /\ pc' = "print_outer"
    /\ UNCHANGED <<config, classes, x64, all_widths, p, dtype, loss_fn, cross,
                   loaded, accs, H_F, reads, ranks, preds>>

\* print('Rank of Gradient Outer Product is ' + ...)
PrintOuter ==
    /\ pc = "print_outer"
    /\ printed' = Append(printed, <<rank_outer, pred_outer>>)
    /\ pc' = "print_L"
    /\ UNCHANGED <<config, classes, x64, all_widths, p, dtype, loss_fn, cross,
                   loaded, accs, H_F, reads, ranks, preds>>

\* print('Rank of Loss Hessian is ' + ...)
PrintL ==
    /\ pc = "print_L"
    /\ printed' = Append(printed, <<rank_L, pred_L>>)
    /\ pc' = "done"
    /\ UNCHANGED <<config, classes, x64, all_widths, p, dtype, loss_fn, cross,
                   loaded, accs, H_F, reads, ranks, preds>>

Next ==
    \/ EnableX64
    \/ Hyperparameters
    \/ LoadData
    \/ InitParams
    \/ SelectLoss
    \/ CreateAccumulators
    \/ LoopBody
    \/ Difference
    \/ RankCell
    \/ BoundPredictor
    \/ PrintF
    \/ PrintOuter
    \/ PrintL

Spec == Init /\ [][Next]_vars

\* ------------------------------------------- the bound predictor on its own
\* The predictor cell as a function of its inputs: the covariance rank, the
\* class count, the hidden widths and the loss name, with the measured ranks
\* it prints next to its predictions.
PredWidthLists ==
    {<<>>} \cup {<<a>> : a \in 1..MaxWidth}
           \cup {<<a, b>> : a \in 1..MaxWidth, b \in 1..MaxWidth}

PredInitWith(name, n, b, d, w, k, r, mF, mO, mL) ==
    /\ pc = "predict"
    /\ loss_name = name /\ n_train = n /\ bs = b /\ dim = d /\ widths = w
    /\ classes = k
    /\ dataset_ok = TRUE
    /\ x64 = TRUE
    /\ all_widths = AllWidths(d, w, k)
    /\ p = ParamCount(all_widths)
    /\ \E dt \in DataDtypes :
          dtype = [params |-> "f64", acc |-> "f64", data |-> dt,
                   batch |-> dt, contrib |-> dt]
    /\ loss_fn = name
    /\ cross = IF name = "cross" THEN "True" ELSE "False"
    /\ loaded = <<>>
    /\ cov = Undef /\ H_L = Undef /\ H_outer = Undef /\ H_F = Undef
    /\ reads = [cov |-> 1, H_L |-> 2, H_outer |-> 2]
    /\ rank_cov = r /\ rank_F = mF /\ rank_outer = mO /\ rank_L = mL
    /\ s = NoInt /\ q = NoInt /\ pred_F = NoInt /\ pred_outer = NoInt /\ pred_L = NoInt
    /\ printed = <<>>

PredInit ==
    \/ \E name \in {"mse", "cross", "cosh"}, w \in PredWidthLists,
          k \in 1..MaxClasses, r \in 0..MaxRank, full \in BOOLEAN :
          LET m == IF full THEN ParamCount(AllWidths(MaxRank, w, k)) ELSE 0
          IN  PredInitWith(name, 1, 1, MaxRank, w, k, r, m, m, m)
    \/ PredInitWith("mse", RefNTrain, RefBs, RefDim, RefWidths, RefClasses, RefDim,
                    RecRankF, RecRankOuter, RecRankL)

PredNext ==
    \/ BoundPredictor
    \/ PrintF
    \/ PrintOuter
    \/ PrintL

PredSpec == PredInit /\ [][PredNext]_vars

\* ================================================================ claims
Predicted == pc \in {"print_F", "print_outer", "print_L", "done"}

\* m is the least element of the set S.
IsMin(m, S) == m \in S /\ \A x \in S : m <= x

\* The class count the configuration was set up with (all_widths keeps it).
ConfiguredClasses == all_widths[Len(all_widths)]

\* The three predictions and s, q as the bound formulas give them for
\* covariance rank r and class count k.
BoundsFor(r, k) ==
    /\ IsMin(s, {r, k})
    /\ IsMin(q, {r, k} \cup Range(widths))
    /\ pred_outer = q * (r + k - q)
    /\ pred_F = 2 * q * SeqSum(widths) + 2 * q * s - (Len(widths) + 1) * q * q
    /\ pred_L = pred_F + pred_outer + q * (q - 2 * s)

\* C1: once the predictor has run, s = min(r, k), q = min(r, k, all hidden
\* widths), pred_outer = q(r + k - q), pred_F = 2q sum(widths) + 2qs -
\* (len(widths)+1) q^2 and pred_L = pred_F + pred_outer + q(q - 2s), for the
\* covariance rank r and the effective class count k.
C1_BoundFormulas == Predicted => BoundsFor(rank_cov, classes)

\* A run where a hidden width is the strict minimum, so q < s.
C1_Witness ==
    /\ pc = "done"
    /\ widths # <<>>
    /\ 0 < q /\ q < s
    /\ q < rank_cov /\ q < classes

\* C2: with the cross-entropy loss, q, s and all three predictions use the
\* configured class count minus one; with 'mse' or 'cosh' they use the
\* configured class count unchanged.
C2_CrossDecrement ==
    /\ ~Predicted /\ all_widths # Undef => classes = ConfiguredClasses
    /\ Predicted /\ loss_name = "cross" =>
          /\ classes = ConfiguredClasses - 1
          /\ BoundsFor(rank_cov, ConfiguredClasses - 1)
    /\ Predicted /\ loss_name \in {"mse", "cosh"} =>
          /\ classes = ConfiguredClasses
          /\ BoundsFor(rank_cov, ConfiguredClasses)

\* A cross-entropy run where the decrement changes s.
C2_Witness ==
    /\ pc = "done"
    /\ loss_name = "cross"
    /\ rank_cov >= ConfiguredClasses
    /\ s = ConfiguredClasses - 1
    /\ s > 0

IsReference ==
    /\ n_train = 50 /\ dim = 25 /\ widths = <<5, 10>> /\ bs = 10
    /\ ConfiguredClasses = 10
    /\ loss_name = "mse"
    /\ rank_cov = 25

\* C3: in the reference configuration with covariance rank 25 the predictor
\* yields 175, 150 and 250, and the three printed lines pair them with the
\* measured ranks 175, 150 and 250 of the recorded output.
C3_ReferenceRun ==
    /\ IsReference /\ Predicted =>
          pred_F = 175 /\ pred_outer = 150 /\ pred_L = 250
    /\ IsReference /\ pc = "done" =>
          /\ printed = << <<175, 175>>, <<150, 150>>, <<250, 250>> >>
          /\ printed = RecordedOutput

C3_Witness == IsReference /\ pc = "done" /\ Len(printed) = 3

\* C9: the predictions equal the formula cell read with m_1..m_L, m_L = k:
\* pred_F = 2q(sum of hidden widths + k) + 2qs - Lq^2 and
\* pred_L = 2q(sum of hidden widths + k) - Lq^2 + q(r + k), L = len(widths)+1.
C9_FormulaCell ==
    Predicted =>
        LET sumM == SeqSum(widths) + classes
            L == Len(widths) + 1
        IN  /\ pred_F = 2 * q * sumM + 2 * q * s - L * q * q
            /\ pred_L = 2 * q * sumM - L * q * q + q * (rank_cov + classes)

\* ------------------------------------------------- the accumulation claims
Created == cov # Undef
LoopFinished == pc \in {"rank", "predict", "print_F", "print_outer", "print_L", "done"}

\* What the batch id adds to accumulator c (1: cov, 2: H_L, 3: H_outer).
ContributionOf(id, rows, c) ==
    IF c = 1 THEN Gram(BatchInput(id, dim, rows), dim)
    ELSE IF c = 2 THEN loss_hessian(id, p) ELSE outer_prod(id, p)

\* What batch number k of the loader adds to accumulator c.
Contribution(k, c) == ContributionOf(loaded[k], BatchRows(k), c)

Side(c) == IF c = 1 THEN dim ELSE p

\* Accumulator c after the loop has processed batches order[1..n], in that
\* order, starting from zeros.
RECURSIVE AccumulateIn(_, _, _)
AccumulateIn(order, c, n) ==
    IF n = 0 THEN Zeros(Side(c), Side(c))
    ELSE MatAdd(AccumulateIn(order, c, n - 1), Contribution(order[n], c))

\* Entry (i, j) of accumulator c, value v, against the contributions of all
\* batches from number k on, where e is the exact (unrounded) sum of the
\* contributions before k, a the sum of their magnitudes and ok says that
\* every partial sum so far is representable.  Neither e nor a depends on the
\* order of the batches (a zero contribution changes none of them).  At the
\* end: v is within the summation rounding bound of e, and equals e when no
\* partial sum rounded.
RECURSIVE EntryWithinRounding(_, _, _, _, _, _, _, _)
RECURSIVE EntryPlus(_, _, _, _, _, _, _, _, _)
EntryPlus(c, i, j, v, k, e, a, ok, x) ==
    IF x = 0
    THEN EntryWithinRounding(c, i, j, v, k + 1, e, a, ok)
    ELSE EntryWithinRounding(c, i, j, v, k + 1, e + x, a + Abs(x),
                             ok /\ Representable(e + x))

EntryWithinRounding(c, i, j, v, k, e, a, ok) ==
    IF k <= Len(loaded)
    THEN EntryPlus(c, i, j, v, k, e, a, ok, Contribution(k, c)[i][j])
    ELSE LET n == Len(loaded)
         IN  /\ n - 1 < 2 ^ MantBits =>
                   Abs(v - e) * (2 ^ MantBits - (n - 1)) <= (n - 1) * a
             /\ ok => v = e

Orders == Permutations(1..Len(loaded))

\* C4 as claimed: after the loop H_L equals H_F + H_outer entry by entry.
C4_ExactSum ==
    LoopFinished =>
        \A i \in 1..p, j \in 1..p : H_L[i][j] = H_F[i][j] + H_outer[i][j]

\* C4 as amended: H_F is the rounded difference of the final H_L and H_outer,
\* so H_F + H_outer differs from H_L by at most the rounding error of that
\* subtraction (2^-MantBits of |H_L - H_outer|), and not at all where the
\* difference is representable.
C4_SumWithinRounding ==
    LoopFinished =>
        \A i \in 1..p, j \in 1..p :
            LET a == H_L[i][j]
                b == H_outer[i][j]
                f == H_F[i][j]
            IN  \/ a = 0 /\ b = 0 /\ f = 0
                \/ /\ Abs(f + b - a) * (2 ^ MantBits) <= Abs(a - b)
                   /\ Representable(a - b) => f + b = a
                   /\ Representable(f)

\* A finished run with one entry where the subtraction rounded and one
\* where it did not (and the entry is not zero).
C4_Witness ==
    /\ pc = "done"
    /\ \E i \in 1..p, j \in 1..p : H_F[i][j] + H_outer[i][j] # H_L[i][j]
    /\ \E i \in 1..p, j \in 1..p :
          H_F[i][j] # 0 /\ H_F[i][j] + H_outer[i][j] = H_L[i][j]

\* C5 as claimed: when the batch size divides the sample count, the
\* accumulated cov, H_L and H_outer, and the ranks taken from them and from
\* H_F, are the same for every order of the batches.
C5_SameForEveryOrder ==
    pc = "rank" /\ n_train % bs = 0 =>
        \A order \in Orders :
            LET n == Len(loaded)
                c2 == AccumulateIn(order, 1, n)
                l2 == AccumulateIn(order, 2, n)
                o2 == AccumulateIn(order, 3, n)
            IN  /\ c2 = cov /\ l2 = H_L /\ o2 = H_outer
                /\ matrix_rank(c2) = matrix_rank(cov)
                /\ matrix_rank(l2) = matrix_rank(H_L)
                /\ matrix_rank(o2) = matrix_rank(H_outer)
                /\ matrix_rank(MatSub(l2, o2)) = matrix_rank(H_F)

\* C5 as amended: whatever the order the loader delivers the batches in,
\* every entry of cov, H_L and H_outer lies within the summation rounding
\* bound of the exact sum of the batch contributions, which does not depend
\* on the order (so two orders agree up to twice that bound); and it equals
\* that exact sum, so that the matrices and the ranks taken from them and
\* from H_F are the same for every order, when its additions do not round.
C5_OrderWithinRounding ==
    pc = "rank" =>
        /\ \A i \in 1..dim, j \in 1..dim :
              EntryWithinRounding(1, i, j, cov[i][j], 1, 0, 0, TRUE)
        /\ \A i \in 1..p, j \in 1..p :
              /\ EntryWithinRounding(2, i, j, H_L[i][j], 1, 0, 0, TRUE)
              /\ EntryWithinRounding(3, i, j, H_outer[i][j], 1, 0, 0, TRUE)

\* The loop has ended after three batches and another order of the same
\* batches leaves a different H_L of a different rank.
C5_Witness ==
    /\ pc = "rank"
    /\ n_train % bs = 0
    /\ Len(loaded) = 3
    /\ \E order \in Orders :
          /\ AccumulateIn(order, 2, 3) # H_L
          /\ matrix_rank(AccumulateIn(order, 2, 3)) # matrix_rank(H_L)

Symmetric(M) == \A i \in DOMAIN M, j \in DOMAIN M : M[i][j] = M[j][i]

\* C6: from their creation on, after every iteration and at the end of the
\* loop, H_L and H_outer are symmetric, and so is H_F, which is set to their
\* difference when the loop ends.
C6_Symmetric ==
    /\ Created => Symmetric(H_L) /\ Symmetric(H_outer)
    /\ LoopFinished => Symmetric(H_F)
    /\ pc = "rank" => H_F = MatSub(H_L, H_outer)

\* A finished run of at least two batches with non-zero off-diagonal entries
\* in all three matrices.
C6_Witness ==
    /\ pc = "done"
    /\ Len(loaded) >= 2
    /\ p >= 2
    /\ H_L[1][p] # 0 /\ H_outer[1][p] # 0 /\ H_F[1][p] # 0

LoaderOrder == [k \in 1..Len(loaded) |-> k]

\* The sum of the products of consecutive layer widths aw[1..k+1].
RECURSIVE ConsecutiveProducts(_, _)
ConsecutiveProducts(aw, k) ==
    IF k = 0 THEN 0 ELSE aw[k] * aw[k + 1] + ConsecutiveProducts(aw, k - 1)

\* The lifecycle of cov, H_L and H_outer in one state, with H_L and H_outer
\* read nH times in a complete run: zero matrices of the right shapes at
\* creation, read only once the loader is exhausted, and read once (cov) or
\* nH times (H_L, H_outer) by the end.
LifecycleState(nH) ==
    /\ pc = "loop" /\ loaded = <<>> =>
          LET pp == ConsecutiveProducts(<<dim>> \o widths \o <<ConfiguredClasses>>,
                                        Len(widths) + 1)
          IN  /\ cov = Zeros(dim, dim)
              /\ H_L = Zeros(pp, pp)
              /\ H_outer = Zeros(pp, pp)
    /\ reads.cov > 0 \/ reads.H_L > 0 \/ reads.H_outer > 0 =>
          LoopFinished /\ Len(loaded) = NumBatches
    /\ reads.cov <= 1 /\ reads.H_L <= nH /\ reads.H_outer <= nH
    /\ pc = "done" => reads.cov = 1 /\ reads.H_L = nH /\ reads.H_outer = nH

\* M2 is M1 plus the contribution of the batch just fetched to accumulator c.
PlusOneBatch(M1, M2, c) ==
    \A i \in 1..Side(c), j \in 1..Side(c) :
        M2[i][j] = Fl(M1[i][j] + ContributionOf(loaded'[Len(loaded')], BatchRows(Len(loaded')), c)[i][j])

\* The lifecycle in one step: an accumulator changes only when it is created
\* or when an iteration of the loop adds the contribution of the one batch
\* it fetched, and never once any accumulator has been read.
LifecycleStep ==
    /\ cov' # cov =>
          \/ pc = "zeros"
          \/ /\ pc = "loop" /\ Len(loaded') = Len(loaded) + 1
             /\ PlusOneBatch(cov, cov', 1)
    /\ H_L' # H_L =>
          \/ pc = "zeros"
          \/ /\ pc = "loop" /\ Len(loaded') = Len(loaded) + 1
             /\ PlusOneBatch(H_L, H_L', 2)
    /\ H_outer' # H_outer =>
          \/ pc = "zeros"
          \/ /\ pc = "loop" /\ Len(loaded') = Len(loaded) + 1
             /\ PlusOneBatch(H_outer, H_outer', 3)
    /\ reads.cov > 0 \/ reads.H_L > 0 \/ reads.H_outer > 0 => UNCHANGED accs

\* C8 as claimed: each of cov, H_L and H_outer is read exactly once.
C8_ReadExactlyOnce == pc = "done" => reads.cov = 1 /\ reads.H_L = 1 /\ reads.H_outer = 1

\* C8 as amended: cov is read exactly once (by the rank cell); H_L and
\* H_outer are each read exactly twice, by H_F = H_L - H_outer and by the
\* rank cell; the rest of the lifecycle is as claimed.
C8_Lifecycle == [](LifecycleState(2)) /\ [][LifecycleStep]_vars

\* A finished run of at least two batches with non-zero accumulators.
C8_Witness ==
    /\ pc = "done"
    /\ Len(loaded) >= 2
    /\ reads = [cov |-> 1, H_L |-> 2, H_outer |-> 2]
    /\ cov # Zeros(dim, dim) /\ H_L # Zeros(p, p) /\ H_outer # Zeros(p, p)

\* ------------------------------------------------------------ abort claim
\* C10: a run moves from cell to cell until it ends either completed, having
\* accumulated every batch into all three matrices before printing three
\* lines computed from them, or
\* aborted at its first failing step with nothing printed; with an unknown
\* loss name no loss function and no cross flag is defined, and the run
\* aborts in its first iteration.
C10_AllOrNothing ==
    /\ pc \in {"precision", "hyper", "data", "params", "loss", "zeros", "loop",
               "rank", "predict", "print_F", "print_outer", "print_L",
               "done", "aborted"}
    /\ pc = "loop" => Len(loaded) <= NumBatches
    /\ pc = "aborted" =>
          /\ printed = <<>>
          /\ IF Created THEN loss_fn = "undef" /\ Len(loaded) = 1
                        ELSE ~dataset_ok /\ loaded = <<>>
    /\ pc = "done" => Len(printed) = 3
    /\ loss_name \notin {"mse", "cross", "cosh"} =>
          loss_fn = "undef" /\ cross = "undef" /\ printed = <<>> /\ pc # "done"
    /\ printed # <<>> =>
          /\ loss_fn # "undef"
          /\ Len(loaded) = NumBatches
          /\ printed[1] = <<rank_F, pred_F>>
          /\ Len(printed) >= 2 => printed[2] = <<rank_outer, pred_outer>>
          /\ Len(printed) >= 3 => printed[3] = <<rank_L, pred_L>>
    /\ pc = "print_F" =>
          /\ Len(loaded) = NumBatches
          /\ cov = AccumulateIn(LoaderOrder, 1, NumBatches)
          /\ H_L = AccumulateIn(LoaderOrder, 2, NumBatches)
          /\ H_outer = AccumulateIn(LoaderOrder, 3, NumBatches)
          /\ H_F = MatSub(H_L, H_outer)
          /\ rank_F = matrix_rank(H_F)
          /\ rank_outer = matrix_rank(H_outer)
          /\ rank_L = matrix_rank(H_L)

\* A run with an unknown loss name that aborted in the first of several
\* iterations, after the covariance had taken the first batch.
C10_Witness ==
    /\ pc = "aborted"
    /\ loss_name = "other"
    /\ NumBatches > 1
    /\ Len(loaded) = 1
    /\ cov # Zeros(dim, dim)
    /\ H_L = Zeros(p, p)
    /\ printed = <<>>

====
